---- MODULE Spec2Model ----
(***************************************************************************)
(* A model of the oaf repository's path codec (path-string/src/lib.rs):    *)
(* path_to_path_string turns a filesystem path, a sequence of platform     *)
(* path units, into a printable token, and path_string_to_path_buf turns   *)
(* a token back into a path.                                               *)
(*                                                                         *)
(* Representation.  A byte is a number in 0..255, a 16-bit unit a number   *)
(* in 0..65535, a character a Unicode scalar value, a text (Rust str) the  *)
(* sequence of its characters.  A path is the sequence of its units:       *)
(* bytes under cfg(unix), 16-bit units under cfg(windows).  The conversions*)
(* between units and text are computed (UTF-8 and UTF-16), as are base64   *)
(* encoding and decoding.                                                  *)
(*                                                                         *)
(* The module also holds the MRUList and its iterator of src/mru_list.rs   *)
(* and the tilde helpers of src/paths.rs.  Each component has a            *)
(* specification of its own: Spec and SpecEdit (a caller of the codec),    *)
(* SpecCalls (a caller that makes several calls), SpecWide (the 16-bit     *)
(* helpers, as the tests call them), SpecMru (the list), SpecIter (the     *)
(* iterator) and SpecTilde (compress_tilde and expand_tilde).              *)
(***************************************************************************)
EXTENDS Integers, Sequences, FiniteSets, TLC

VARIABLES
    os,     \* the build target: "unix" or "windows" (the cfg attributes)
    pb,     \* the caller's PathBuf: [some, units]
    s,      \* the token: [some, cow, text]; cow is "Borrowed" or "Owned",
            \* "Read" for a line read back, "Edited" for a changed token
    pb2,    \* what path_string_to_path_buf did: [some, status, units]
    pc,     \* the caller's position
    log,    \* the calls a caller has made so far, in order
    wide,   \* the locals of a caller of the 16-bit helpers
    mru,    \* an MRUList: [is_changed, max_items, data]
    last,   \* the last call on the list, and the list before that call
    it,     \* an MRUIterator over the list and what it has yielded
    tilde   \* a call of compress_tilde or expand_tilde: [op, home, path, result]

vars == <<os, pb, s, pb2, pc, log, wide, mru, last, it, tilde>>

\* What a caller of the codec leaves alone.
notCodec == <<log, wide, mru, last, it, tilde>>

\* What a caller of the list leaves alone.
notMru == <<os, pb, s, pb2, pc, log, wide, it, tilde>>

----------------------------------------------------------------------------
(* Bounds of the model.                                                    *)

\* Longest path, in units, drawn from the unit alphabet.
MaxLen == 3

\* Longest text that follows the sentinel prefix in a path or in a token
\* that is read back from a file.
MaxTail == 4

\* Most calls that one caller makes in a row.
MaxCalls == 3

\* The largest max_items of an MRUList, and the number of values that are
\* put into one: one more, so that a full list meets a value it has not.
MaxItems == 3
NumValues == 4

\* The largest number of calls of next() on one iterator: two more than
\* the longest list has items, so that None is seen twice.
MaxNexts == 5

\* The longest path text given to compress_tilde and expand_tilde.
MaxPathLen == 5

----------------------------------------------------------------------------
(* Sequences.                                                              *)

SeqsUpTo(S, n) == UNION {[1..k -> S] : k \in 0..n}

starts_with(t, prefix) ==
    /\ Len(t) >= Len(prefix)
    /\ SubSeq(t, 1, Len(prefix)) = prefix

Drop(t, n) == SubSeq(t, n + 1, Len(t))

----------------------------------------------------------------------------
(* Text: char::is_control, UTF-8 and UTF-16.                               *)

\* A changed is_control: the ASCII control characters only
\* (char::is_ascii_control), which leaves out U+0080..U+009F.
is_ascii_control(c) == (c >= 0 /\ c <= 31) \/ c = 127

\* char::is_control: the Unicode general category Cc, U+0000..U+001F and
\* U+007F..U+009F.
is_control(c) == (c >= 0 /\ c <= 31) \/ (c >= 127 /\ c <= 159)

IsContinuation(b) == b >= 128 /\ b <= 191

\* The number of bytes of the well-formed UTF-8 sequence that starts bytes,
\* 0 when there is none (core::str::from_utf8's validation table).
Utf8Width(bytes) ==
    LET n  == Len(bytes)
        b1 == bytes[1]
    IN  IF b1 <= 127 THEN 1
        ELSE IF b1 >= 194 /\ b1 <= 223
            THEN IF n >= 2 /\ IsContinuation(bytes[2]) THEN 2 ELSE 0
        ELSE IF b1 >= 224 /\ b1 <= 239
            THEN IF /\ n >= 3
                    /\ IsContinuation(bytes[2])
                    /\ IsContinuation(bytes[3])
                    /\ (b1 = 224 => bytes[2] >= 160)
                    /\ (b1 = 237 => bytes[2] <= 159)
                 THEN 3 ELSE 0
        ELSE IF b1 >= 240 /\ b1 <= 244
            THEN IF /\ n >= 4
                    /\ IsContinuation(bytes[2])
                    /\ IsContinuation(bytes[3])
                    /\ IsContinuation(bytes[4])
                    /\ (b1 = 240 => bytes[2] >= 144)
                    /\ (b1 = 244 => bytes[2] <= 143)
                 THEN 4 ELSE 0
        ELSE 0

\* The character a well-formed UTF-8 sequence of w bytes encodes.
Utf8Char(bytes, w) ==
    IF w = 1 THEN bytes[1]
    ELSE IF w = 2 THEN ((bytes[1] - 192) * 64) + (bytes[2] - 128)
    ELSE IF w = 3 THEN ((bytes[1] - 224) * 4096) + ((bytes[2] - 128) * 64)
                       + (bytes[3] - 128)
    ELSE ((bytes[1] - 240) * 262144) + ((bytes[2] - 128) * 4096)
         + ((bytes[3] - 128) * 64) + (bytes[4] - 128)

\* str::from_utf8: the text of a byte sequence, if it is UTF-8.
RECURSIVE from_utf8(_)
from_utf8(bytes) ==
    IF bytes = <<>> THEN [some |-> TRUE, text |-> <<>>]
    ELSE LET w == Utf8Width(bytes)
         IN  IF w = 0 THEN [some |-> FALSE, text |-> <<>>]
             ELSE LET rest == from_utf8(Drop(bytes, w))
                  IN  IF rest.some
                      THEN [some |-> TRUE,
                            text |-> <<Utf8Char(bytes, w)>> \o rest.text]
                      ELSE rest

\* The UTF-8 bytes of one character.
Utf8Bytes(c) ==
    IF c <= 127 THEN <<c>>
    ELSE IF c <= 2047 THEN <<192 + (c \div 64), 128 + (c % 64)>>
    ELSE IF c <= 65535
        THEN <<224 + (c \div 4096), 128 + ((c \div 64) % 64), 128 + (c % 64)>>
    ELSE <<240 + (c \div 262144), 128 + ((c \div 4096) % 64),
           128 + ((c \div 64) % 64), 128 + (c % 64)>>

\* str::as_bytes: the UTF-8 bytes of a text.
RECURSIVE as_bytes(_)
as_bytes(text) ==
    IF text = <<>> THEN <<>>
    ELSE Utf8Bytes(Head(text)) \o as_bytes(Tail(text))

IsHighSurrogate(u) == u >= 55296 /\ u <= 56319
IsLowSurrogate(u) == u >= 56320 /\ u <= 57343

\* The text of a sequence of 16-bit units, if it is well-formed UTF-16
\* (an OsStr of Windows is text exactly when it has no unpaired surrogate).
RECURSIVE from_utf16(_)
from_utf16(wides) ==
    IF wides = <<>> THEN [some |-> TRUE, text |-> <<>>]
    ELSE LET u == wides[1]
             paired == /\ IsHighSurrogate(u)
                       /\ Len(wides) >= 2
                       /\ IsLowSurrogate(wides[2])
         IN  IF (IsHighSurrogate(u) /\ ~paired) \/ IsLowSurrogate(u)
             THEN [some |-> FALSE, text |-> <<>>]
             ELSE LET w == IF paired THEN 2 ELSE 1
                      c == IF paired
                           THEN 65536 + ((u - 55296) * 1024) + (wides[2] - 56320)
                           ELSE u
                      rest == from_utf16(Drop(wides, w))
                  IN  IF rest.some
                      THEN [some |-> TRUE, text |-> <<c>> \o rest.text]
                      ELSE rest

\* str::encode_utf16: the 16-bit units of a text.
RECURSIVE encode_utf16(_)
encode_utf16(text) ==
    IF text = <<>> THEN <<>>
    ELSE LET c == Head(text)
         IN  (IF c >= 65536
              THEN <<55296 + ((c - 65536) \div 1024), 56320 + ((c - 65536) % 1024)>>
              ELSE <<c>>) \o encode_utf16(Tail(text))

----------------------------------------------------------------------------
(* base64, configuration STANDARD: the alphabet A-Z a-z 0-9 + /, padded    *)
(* with '='.                                                               *)

PadChar == 61

\* The character of the 6-bit value v in the standard alphabet.
B64Char(v) ==
    IF v < 26 THEN 65 + v
    ELSE IF v < 52 THEN 97 + (v - 26)
    ELSE IF v < 62 THEN 48 + (v - 52)
    ELSE IF v = 62 THEN 43
    ELSE 47

\* The 6-bit value of a character of the standard alphabet, -1 for any
\* other character.
B64Value(c) ==
    IF c >= 65 /\ c <= 90 THEN c - 65
    ELSE IF c >= 97 /\ c <= 122 THEN (c - 97) + 26
    ELSE IF c >= 48 /\ c <= 57 THEN (c - 48) + 52
    ELSE IF c = 43 THEN 62
    ELSE IF c = 47 THEN 63
    ELSE -1

\* base64::encode_config_buf(bytes, STANDARD, ..): three bytes become four
\* characters; a last group of one or two bytes is padded to four.
RECURSIVE base64_encode(_)
base64_encode(bytes) ==
    LET n == Len(bytes)
    IN  IF n = 0 THEN <<>>
        ELSE IF n = 1
            THEN <<B64Char(bytes[1] \div 4),
                   B64Char((bytes[1] % 4) * 16),
                   PadChar, PadChar>>
        ELSE IF n = 2
            THEN <<B64Char(bytes[1] \div 4),
                   B64Char(((bytes[1] % 4) * 16) + (bytes[2] \div 16)),
                   B64Char((bytes[2] % 16) * 4),
                   PadChar>>
        ELSE <<B64Char(bytes[1] \div 4),
               B64Char(((bytes[1] % 4) * 16) + (bytes[2] \div 16)),
               B64Char(((bytes[2] % 16) * 4) + (bytes[3] \div 64)),
               B64Char(bytes[3] % 64)>> \o base64_encode(Drop(bytes, 3))

\* The bytes of a run of 6-bit values whose length is not 1 modulo 4.
RECURSIVE MorselsToBytes(_)
MorselsToBytes(m) ==
    LET n == Len(m)
    IN  IF n < 2 THEN <<>>
        ELSE IF n = 2 THEN <<(m[1] * 4) + (m[2] \div 16)>>
        ELSE IF n = 3
            THEN <<(m[1] * 4) + (m[2] \div 16),
                   ((m[2] % 16) * 16) + (m[3] \div 4)>>
        ELSE <<(m[1] * 4) + (m[2] \div 16),
               ((m[2] % 16) * 16) + (m[3] \div 4),
               ((m[3] % 4) * 64) + m[4]>> \o MorselsToBytes(Drop(m, 4))

\* The bits of the last 6-bit value that no output byte takes.
TrailingBits(m) ==
    LET n == Len(m)
    IN  IF n % 4 = 2 THEN m[n] % 16
        ELSE IF n % 4 = 3 THEN m[n] % 4
        ELSE 0

\* base64::decode_config(text, STANDARD): Ok(bytes) or Err(DecodeError).
\* An error is a character outside the alphabet, a '=' in the first half of
\* a group of four or before an alphabet character, a length of 1 modulo 4,
\* and a last character with bits set that no byte takes.  The releases of
\* the library that have encode_config_buf and STANDARD do not ask for the
\* padding when they decode: "CQ" decodes as "CQ==" does.
base64_decode(text) ==
    LET n == Len(text)
        pads == {i \in 1..n : text[i] = PadChar}
        body == SelectSeq(text, LAMBDA c : c # PadChar)
        morsels == [i \in 1..Len(body) |-> B64Value(body[i])]
        bad ==
            \/ n % 4 = 1
            \/ \E i \in pads : (i - 1) % 4 < 2
            \/ \E i \in pads : \E j \in (i + 1)..n : text[j] # PadChar
            \/ \E i \in 1..Len(body) : morsels[i] = -1
            \/ Len(body) % 4 = 1
    IN  IF bad THEN [ok |-> FALSE, bytes |-> <<>>]
        ELSE IF TrailingBits(morsels) # 0 THEN [ok |-> FALSE, bytes |-> <<>>]
        ELSE [ok |-> TRUE, bytes |-> MorselsToBytes(morsels)]

----------------------------------------------------------------------------
(* The codec, path-string/src/lib.rs.                                      *)

\* "b64:\_"
PREFIX_windows == <<98, 54, 52, 58, 92, 95>>

\* "/dev/null/b64_"
PREFIX_unix == <<47, 100, 101, 118, 47, 110, 117, 108, 108, 47, 98, 54, 52, 95>>

PREFIX == IF os = "windows" THEN PREFIX_windows ELSE PREFIX_unix

\* A changed should_be_encoded: it also asks to encode every text with a
\* character beyond ASCII.
should_be_encoded_non_ascii(text) ==
    \E i \in 1..Len(text) : is_control(text[i]) \/ text[i] > 127

\* A changed should_be_encoded: it looks at the first character only.
should_be_encoded_first_char(text) == Len(text) > 0 /\ is_control(text[1])

\* A changed should_be_encoded: all() in place of any(), which is true of
\* the empty text.
should_be_encoded_all(text) == \A i \in 1..Len(text) : is_control(text[i])

should_be_encoded(text) == \E i \in 1..Len(text) : is_control(text[i])

\* A changed encode_bytes: the base64 without its padding (the library's
\* STANDARD_NO_PAD in place of STANDARD).
encode_bytes_no_pad(bytes) ==
    PREFIX \o SelectSeq(base64_encode(bytes), LAMBDA c : c # PadChar)

\* A changed encode_bytes: the buffer b64 outlives the call and is not
\* cleared, so that the base64 is appended to the token of the call before.
encode_bytes_reused_buffer(bytes) ==
    (IF s.some THEN s.text ELSE PREFIX) \o base64_encode(bytes)

encode_bytes(bytes) == PREFIX \o base64_encode(bytes)

\* A changed decode_bytes: unwrap_or_default() in place of expect(), so that
\* text that is not base64 gives no bytes.
decode_bytes_unwrap_or_default(encoded_str) ==
    [panicked |-> FALSE,
     bytes |-> base64_decode(Drop(encoded_str, Len(PREFIX))).bytes]

\* The bytes, or the panic of expect() on the library's Err.
decode_bytes(encoded_str) ==
    LET encoded_bytes == Drop(encoded_str, Len(PREFIX))
        bytes == base64_decode(encoded_bytes)
    IN  IF bytes.ok THEN [panicked |-> FALSE, bytes |-> bytes.bytes]
        ELSE [panicked |-> TRUE, bytes |-> <<>>]

\* A changed bytes_to_u16: the low byte first.
bytes_to_u16_low_first(b1, b2) == ((b2 * 256) + b1) % 65536

bytes_to_u16(b1, b2) == ((b1 * 256) + b2) % 65536

u16_to_bytes(value) == <<(value \div 256) % 256, value % 256>>

RECURSIVE u16_slice_to_byte_array(_)
u16_slice_to_byte_array(wides) ==
    IF wides = <<>> THEN <<>>
    ELSE u16_to_bytes(Head(wides)) \o u16_slice_to_byte_array(Tail(wides))

encode_os(units) ==
    IF os = "windows" THEN encode_bytes(u16_slice_to_byte_array(units))
    ELSE encode_bytes(units)

\* cfg(unix): the bytes are the units.  cfg(windows): the loop
\* "while i < bytes.len() - 1" takes the bytes in pairs and leaves a last
\* odd byte out; with no bytes at all, bytes.len() - 1 underflows: a panic
\* in a build with overflow checks, and without them the loop runs and
\* bytes[0] panics.
decode_os(bytes) ==
    IF os = "windows"
    THEN IF Len(bytes) = 0 THEN [panicked |-> TRUE, units |-> <<>>]
         ELSE [panicked |-> FALSE,
               units |-> [k \in 1..(Len(bytes) \div 2) |->
                             bytes_to_u16(bytes[(2 * k) - 1], bytes[2 * k])]]
    ELSE [panicked |-> FALSE, units |-> bytes]

\* Path::to_str: the path as text, when its units are valid text.
to_str(units) == IF os = "windows" THEN from_utf16(units) ELSE from_utf8(units)

\* PathBuf::from(&str): the units of a text.
PathBufFrom(text) ==
    IF os = "windows" THEN encode_utf16(text) ELSE as_bytes(text)

path_to_path_string(p) ==
    LET t == to_str(p)
    IN  IF t.some /\ ~should_be_encoded(t.text)
        THEN [cow |-> "Borrowed", text |-> t.text]
        ELSE [cow |-> "Owned", text |-> encode_os(p)]

\* A changed path_string_to_path_buf: it looks for the prefix without its
\* last character.
path_string_to_path_buf_short_prefix(text) ==
    IF starts_with(text, SubSeq(PREFIX, 1, Len(PREFIX) - 1))
    THEN LET bytes == decode_bytes(text)
         IN  IF bytes.panicked THEN [status |-> "panic", units |-> <<>>]
             ELSE LET os_str == decode_os(bytes.bytes)
                  IN  IF os_str.panicked
                      THEN [status |-> "panic", units |-> <<>>]
                      ELSE [status |-> "ok", units |-> os_str.units]
    ELSE [status |-> "ok", units |-> PathBufFrom(text)]

path_string_to_path_buf(text) ==
    IF starts_with(text, PREFIX)
    THEN LET bytes == decode_bytes(text)
         IN  IF bytes.panicked THEN [status |-> "panic", units |-> <<>>]
             ELSE LET os_str == decode_os(bytes.bytes)
                  IN  IF os_str.panicked
                      THEN [status |-> "panic", units |-> <<>>]
                      ELSE [status |-> "ok", units |-> os_str.units]
    ELSE [status |-> "ok", units |-> PathBufFrom(text)]

----------------------------------------------------------------------------
(* The inputs.                                                             *)

\* Path units: tab, 'h', and for cfg(unix) the bytes C2 85 A9 C0 (C2 85 is
\* U+0085, a control character; C2 A9 is the copyright sign; C0 is never
\* UTF-8), for cfg(windows) U+0085, e-acute and the surrogates D800, DC00.
Units ==
    IF os = "windows" THEN {9, 104, 133, 233, 55296, 56320}
    ELSE {9, 104, 194, 133, 169, 192}

\* The characters that follow the prefix: '=', '!' and two base64 characters
\* ("CQ==" is the base64 of a tab byte, "AAk=" of the bytes 00 09).
TailChars == IF os = "windows" THEN {65, 107, 61, 33} ELSE {67, 81, 61, 33}

\* The characters of a line that does not carry the prefix.
LineChars == {9, 104, 233}

\* The paths of the tests of lib.rs: "", "hello", "hello\tworld" and the
\* invalid sequences.
TestPaths ==
    {<<>>, PathBufFrom(<<104, 101, 108, 108, 111>>),
     PathBufFrom(<<104, 101, 108, 108, 111, 9, 119, 111, 114, 108, 100>>),
     IF os = "windows" THEN <<72, 101, 108, 108, 111, 55296, 72>>
     ELSE <<72, 100, 100, 108, 111, 192>>}

Tails == SeqsUpTo(TailChars, MaxTail)

PathInputs ==
    SeqsUpTo(Units, MaxLen)
        \cup {PathBufFrom(PREFIX \o t) : t \in Tails}
        \cup TestPaths

\* The lines a caller reads back: the prefix and a tail, a tail alone, the
\* prefix less its last character and a tail, and short texts.
TokenInputs ==
    {PREFIX \o t : t \in Tails}
        \cup Tails
        \cup {SubSeq(PREFIX, 1, Len(PREFIX) - 1) \o t : t \in Tails}
        \cup SeqsUpTo(LineChars, MaxLen)

----------------------------------------------------------------------------
(* The callers.                                                            *)

NoPath == [some |-> FALSE, units |-> <<>>]
NoToken == [some |-> FALSE, cow |-> "None", text |-> <<>>]
NoResult == [some |-> FALSE, status |-> "none", units |-> <<>>]
NoWide == [pc |-> "start", wide_chars |-> <<>>, bytes |-> <<>>,
           os_str |-> [panicked |-> FALSE, units |-> <<>>]]
NoList == [is_changed |-> FALSE, max_items |-> 0, data |-> <<>>]
NoCall == [op |-> "none", value |-> 0, before |-> NoList]
NoIter == [some |-> FALSE, data |-> <<>>, next |-> 0, out |-> <<>>]
NoTilde == [op |-> "none", home |-> <<>>, path |-> <<>>, result |-> <<>>]

\* The variables of the components that a specification does not run.
IdleCodec == pb = NoPath /\ s = NoToken /\ pb2 = NoResult /\ pc = "start"
IdleCalls == log = <<>>
IdleWide == wide = NoWide
IdleMru == mru = NoList /\ last = NoCall /\ it = NoIter
IdleTilde == tilde = NoTilde

Init ==
    /\ os \in {"unix", "windows"}
    /\ pb = NoPath
    /\ s = NoToken
    /\ pb2 = NoResult
    /\ pc = "start"
    /\ IdleCalls /\ IdleWide /\ IdleMru /\ IdleTilde

\* A caller builds a PathBuf.
NewPath ==
    /\ pc = "start"
    /\ \E p \in PathInputs : pb' = [some |-> TRUE, units |-> p]
    /\ pc' = "path"
    /\ UNCHANGED <<os, s, pb2>>
    /\ UNCHANGED notCodec

\* let s = path_to_path_string(&pb);
Encode ==
    /\ pc = "path"
    /\ LET coded == path_to_path_string(pb.units)
       IN  s' = [some |-> TRUE, cow |-> coded.cow, text |-> coded.text]
    /\ pc' = "token"
    /\ UNCHANGED <<os, pb, pb2>>
    /\ UNCHANGED notCodec

\* A caller holds a token that was stored as a line of text, which a user
\* may have edited.
ReadToken ==
    /\ pc = "start"
    /\ \E t \in TokenInputs : s' = [some |-> TRUE, cow |-> "Read", text |-> t]
    /\ pc' = "token"
    /\ UNCHANGED <<os, pb, pb2>>
    /\ UNCHANGED notCodec

\* let pb2 = path_string_to_path_buf(&s);
Decode ==
    /\ pc = "token"
    /\ LET r == path_string_to_path_buf(s.text)
       IN  pb2' = [some |-> TRUE, status |-> r.status, units |-> r.units]
    /\ pc' = "done"
    /\ UNCHANGED <<os, pb, s>>
    /\ UNCHANGED notCodec

Next == NewPath \/ Encode \/ ReadToken \/ Decode

Spec == Init /\ [][Next]_vars

----------------------------------------------------------------------------
(* The token that the encoder made is stored as text, and a user changes   *)
(* its base64 before it is decoded (the FIXME of decode_bytes).            *)

\* The texts that one change of the text makes: a character typed over
\* another, a character typed at the end, the last character deleted.
Edits(text) ==
    ({[text EXCEPT ![i] = c] : i \in 1..Len(text), c \in TailChars}
        \cup {Append(text, c) : c \in TailChars}
        \cup {SubSeq(text, 1, Len(text) - 1)}) \ {text}

\* The text after the prefix becomes another text.
EditToken ==
    /\ pc = "token"
    /\ s.cow = "Owned"
    /\ \E t \in Edits(Drop(s.text, Len(PREFIX))) :
        s' = [s EXCEPT !.cow = "Edited", !.text = PREFIX \o t]
    /\ UNCHANGED <<os, pb, pb2, pc>>
    /\ UNCHANGED notCodec

NextEdit == NewPath \/ Encode \/ EditToken \/ Decode

SpecEdit == Init /\ [][NextEdit]_vars

----------------------------------------------------------------------------
(* A caller that makes several calls, one after the other, as the loop of  *)
(* pathtest does; a panic ends it.                                         *)

CallPaths ==
    {<<>>, <<9>>, <<104>>, PathBufFrom(PREFIX),
     IF os = "windows" THEN <<55296>> ELSE <<192>>}

CallTokens == {<<104>>, PREFIX \o <<33>>, encode_os(<<9>>)}

EncodeCall ==
    /\ Len(log) < MaxCalls
    /\ pb2.status # "panic"
    /\ \E p \in CallPaths :
        LET coded == path_to_path_string(p)
        IN  /\ pb' = [some |-> TRUE, units |-> p]
            /\ s' = [some |-> TRUE, cow |-> coded.cow, text |-> coded.text]
            /\ log' = Append(log, [op |-> "encode", path |-> p,
                                   cow |-> coded.cow, text |-> coded.text,
                                   status |-> "ok", units |-> <<>>])
    /\ pc' = "token"
    /\ UNCHANGED <<os, pb2, wide, mru, last, it, tilde>>

DecodeCall ==
    /\ Len(log) < MaxCalls
    /\ pb2.status # "panic"
    /\ \E t \in CallTokens \cup (IF s.some THEN {s.text} ELSE {}) :
        LET r == path_string_to_path_buf(t)
        IN  /\ s' = [some |-> TRUE, cow |-> "Read", text |-> t]
            /\ pb2' = [some |-> TRUE, status |-> r.status, units |-> r.units]
            /\ log' = Append(log, [op |-> "decode", path |-> <<>>,
                                   cow |-> "Read", text |-> t,
                                   status |-> r.status, units |-> r.units])
    /\ pc' = "done"
    /\ UNCHANGED <<os, pb, wide, mru, last, it, tilde>>

NextCalls == EncodeCall \/ DecodeCall

SpecCalls == Init /\ [][NextCalls]_vars

----------------------------------------------------------------------------
(* The 16-bit helpers of cfg(windows), called as the test                  *)
(* path_to_path_string_for_invalid_utf16 calls them:                       *)
(*     let bytes = u16_slice_to_byte_array(&wide_chars);                   *)
(*     let os = decode_os(bytes);                                          *)

\* 16-bit units: the smallest and the largest, tab, the two around the
\* byte boundary and a surrogate.
WideUnits == {0, 9, 255, 256, 55296, 65535}

InitWide ==
    /\ os = "windows"
    /\ IdleCodec /\ IdleCalls /\ IdleMru /\ IdleTilde
    /\ wide = NoWide

WideInput ==
    /\ wide.pc = "start"
    /\ \E w \in SeqsUpTo(WideUnits, MaxLen) :
        wide' = [wide EXCEPT !.pc = "chars", !.wide_chars = w]
    /\ UNCHANGED <<os, pb, s, pb2, pc, log, mru, last, it, tilde>>

WideToBytes ==
    /\ wide.pc = "chars"
    /\ wide' = [wide EXCEPT !.pc = "bytes",
                            !.bytes = u16_slice_to_byte_array(wide.wide_chars)]
    /\ UNCHANGED <<os, pb, s, pb2, pc, log, mru, last, it, tilde>>

WideDecode ==
    /\ wide.pc = "bytes"
    /\ wide' = [wide EXCEPT !.pc = "decoded",
                            !.os_str = decode_os(wide.bytes)]
    /\ UNCHANGED <<os, pb, s, pb2, pc, log, mru, last, it, tilde>>

NextWide == WideInput \/ WideToBytes \/ WideDecode

SpecWide == InitWide /\ [][NextWide]_vars

----------------------------------------------------------------------------
(* MRUList<T>, src/mru_list.rs.  A list is the record of its three fields; *)
(* T is a type whose == is an equality, as the i32 and String of the tests.*)

Values == 1..NumValues

\* MRUList::new(max_items)
new(max_items) == [is_changed |-> FALSE, max_items |-> max_items, data |-> <<>>]

\* self.data.iter().position(|x| *x == *value): the first index, from 1
\* here, or 0 for None.
position(data, value) ==
    IF \E i \in 1..Len(data) : data[i] = value
    THEN CHOOSE i \in 1..Len(data) :
             /\ data[i] = value
             /\ \A j \in 1..(i - 1) : data[j] # value
    ELSE 0

\* Vec::truncate(len): the first len items, or all of them.
truncate(data, len) == IF Len(data) > len THEN SubSeq(data, 1, len) ELSE data

\* A changed remove: Vec::swap_remove in place of Vec::remove, which puts the
\* last item where the removed one was.
remove_swap(self, value) ==
    LET pos == position(self.data, value)
        n == Len(self.data)
    IN  IF pos # 0
        THEN [self EXCEPT
                 !.data = IF pos = n THEN SubSeq(self.data, 1, n - 1)
                          ELSE SubSeq([self.data EXCEPT ![pos] = self.data[n]],
                                      1, n - 1),
                 !.is_changed = TRUE]
        ELSE self

\* A changed remove: the flag is set whether or not the value was found.
remove_always_changed(self, value) ==
    LET pos == position(self.data, value)
    IN  IF pos # 0
        THEN [self EXCEPT !.data = SubSeq(self.data, 1, pos - 1) \o
                                       Drop(self.data, pos),
                          !.is_changed = TRUE]
        ELSE [self EXCEPT !.is_changed = TRUE]

\* MRUList::remove(&mut self, value)
remove(self, value) ==
    LET pos == position(self.data, value)
    IN  IF pos # 0
        THEN [self EXCEPT !.data = SubSeq(self.data, 1, pos - 1) \o
                                       Drop(self.data, pos),
                          !.is_changed = TRUE]
        ELSE self

\* A changed insert: it does not remove the value first.
insert_without_remove(self, value) ==
    [self EXCEPT !.data = truncate(<<value>> \o self.data, self.max_items),
                 !.is_changed = TRUE]

\* A changed insert: it does not truncate.
insert_without_truncate(self, value) ==
    LET removed == remove(self, value)
    IN  [removed EXCEPT !.data = <<value>> \o removed.data,
                        !.is_changed = TRUE]

\* A changed insert: push(value) in place of insert(0, value).
insert_at_back(self, value) ==
    LET removed == remove(self, value)
    IN  [removed EXCEPT
            !.data = truncate(Append(removed.data, value), removed.max_items),
            !.is_changed = TRUE]

\* MRUList::insert(&mut self, value)
insert(self, value) ==
    LET removed == remove(self, value)
    IN  [removed EXCEPT
            !.data = truncate(<<value>> \o removed.data, removed.max_items),
            !.is_changed = TRUE]

\* MRUList::clear_is_changed_flag(&mut self)
clear_is_changed_flag(self) == [self EXCEPT !.is_changed = FALSE]

\* MRUList::len(&self)
len(self) == Len(self.data)

\* An owner makes a list and then calls its methods in any order; last is
\* the call made last and the list as it was before that call.
InitMru ==
    /\ os = "unix"
    /\ IdleCodec /\ IdleCalls /\ IdleWide /\ IdleTilde
    /\ \E n \in 0..MaxItems : mru = new(n)
    /\ last = NoCall
    /\ it = NoIter

CallInsert ==
    /\ \E v \in Values :
        /\ mru' = insert(mru, v)
        /\ last' = [op |-> "insert", value |-> v, before |-> mru]
    /\ UNCHANGED notMru

CallRemove ==
    /\ \E v \in Values :
        /\ mru' = remove(mru, v)
        /\ last' = [op |-> "remove", value |-> v, before |-> mru]
    /\ UNCHANGED notMru

CallClearIsChangedFlag ==
    /\ mru' = clear_is_changed_flag(mru)
    /\ last' = [op |-> "clear_is_changed_flag", value |-> 0, before |-> mru]
    /\ UNCHANGED notMru

NextMru == CallInsert \/ CallRemove \/ CallClearIsChangedFlag

SpecMru == InitMru /\ [][NextMru]_vars

----------------------------------------------------------------------------
(* MRUIterator, src/mru_list.rs.  The iterator borrows the list, so the    *)
(* list is not changed while an iterator lives.  An item that next()       *)
(* returns is Some(value), the record [some |-> TRUE, value |-> value], or *)
(* None.                                                                   *)

None == [some |-> FALSE, value |-> 0]
Some(value) == [some |-> TRUE, value |-> value]

\* MRUList::iter(&self)
iter(self) == [data |-> self.data, next |-> 0]

\* A changed next: self.next is not increased, so that the same item is
\* returned again.
next_without_increase(self) ==
    IF self.next = Len(self.data)
    THEN [self |-> self, item |-> None]
    ELSE [self |-> self, item |-> Some(self.data[self.next + 1])]

\* MRUIterator::next(&mut self): the iterator after the call and the item.
next(self) ==
    IF self.next = Len(self.data)
    THEN [self |-> self, item |-> None]
    ELSE LET bumped == [self EXCEPT !.next = self.next + 1]
         IN  [self |-> bumped, item |-> Some(bumped.data[(bumped.next - 1) + 1])]

\* let mut it = mru.iter();
CallIter ==
    /\ ~it.some
    /\ LET made == iter(mru)
       IN  it' = [some |-> TRUE, data |-> made.data, next |-> made.next,
                  out |-> <<>>]
    /\ UNCHANGED <<os, pb, s, pb2, pc, log, wide, mru, last, tilde>>

\* it.next()
CallNext ==
    /\ it.some
    /\ Len(it.out) < MaxNexts
    /\ LET r == next([data |-> it.data, next |-> it.next])
       IN  it' = [it EXCEPT !.data = r.self.data, !.next = r.self.next,
                            !.out = Append(it.out, r.item)]
    /\ UNCHANGED <<os, pb, s, pb2, pc, log, wide, mru, last, tilde>>

\* The iterator goes out of scope.
DropIter ==
    /\ it.some
    /\ it' = NoIter
    /\ UNCHANGED <<os, pb, s, pb2, pc, log, wide, mru, last, tilde>>

\* The list can be changed only while no iterator borrows it.
IterInsert == ~it.some /\ CallInsert
IterRemove == ~it.some /\ CallRemove

NextIter == IterInsert \/ IterRemove \/ CallIter \/ CallNext \/ DropIter

SpecIter == InitMru /\ [][NextIter]_vars

----------------------------------------------------------------------------
(* compress_tilde and expand_tilde, src/paths.rs (src/utils.rs holds the   *)
(* same two functions).  A path is its text; the methods of std::path that *)
(* the functions call are computed on the text by the rules of the Unix    *)
(* build: '/' (47) separates, a leading '/' is the root, "." (46) is a     *)
(* component only when it comes first.                                     *)

\* The runs of characters between separators, in order.
RECURSIVE Parts(_)
Parts(text) ==
    IF text = <<>> THEN <<>>
    ELSE IF text[1] = 47 THEN Parts(Tail(text))
    ELSE LET ends == {i \in 1..Len(text) : text[i] = 47}
             n == IF ends = {} THEN Len(text) + 1
                  ELSE CHOOSE i \in ends : \A j \in ends : i <= j
         IN  <<SubSeq(text, 1, n - 1)>> \o Parts(Drop(text, n - 1))

\* Path::components(): each component as the text that push() is given,
\* "/" for the root.
components(path) ==
    LET has_root == Len(path) > 0 /\ path[1] = 47
        parts == Parts(path)
        cur_dir == IF ~has_root /\ parts # <<>> /\ parts[1] = <<46>>
                   THEN <<(<<46>>)>> ELSE <<>>
    IN  (IF has_root THEN <<(<<47>>)>> ELSE <<>>)
            \o cur_dir
            \o SelectSeq(parts, LAMBDA part : part # <<46>>)

\* A changed Path::starts_with: the texts are compared, not the components.
Path_starts_with_text(path, base) == starts_with(path, base)

\* Path::starts_with(base): the components of base are the first components
\* of the path.
Path_starts_with(path, base) ==
    LET pcs == components(path)
        bcs == components(base)
    IN  /\ Len(bcs) <= Len(pcs)
        /\ \A i \in 1..Len(bcs) : pcs[i] = bcs[i]

\* PathBuf::push(path): an absolute path takes the place of the buffer; any
\* other is added behind a separator, which is not doubled.
push(self, path) ==
    IF Len(path) > 0 /\ path[1] = 47 THEN path
    ELSE IF Len(self) > 0 /\ self[Len(self)] # 47
         THEN self \o <<47>> \o path
         ELSE self \o path

\* for comp in comps { result.push(comp); }
RECURSIVE push_all(_, _)
push_all(result, comps) ==
    IF comps = <<>> THEN result
    ELSE push_all(push(result, Head(comps)), Tail(comps))

compress_tilde_impl(path, home) ==
    IF Path_starts_with(path, home)
    THEN push_all(<<126>>, Drop(components(path), Len(components(home))))
    ELSE path

\* A changed expand_tilde_impl: without skip(1), the tilde stays.
expand_tilde_impl_without_skip(path, home) ==
    IF Path_starts_with(path, <<126>>)
    THEN push_all(home, components(path))
    ELSE path

expand_tilde_impl(path, home) ==
    IF Path_starts_with(path, <<126>>)
    THEN push_all(home, Drop(components(path), 1))
    ELSE path

\* The characters of the paths: '/', '.', '~' and 'h'.
PathChars == {47, 46, 126, 104}

PathTexts == SeqsUpTo(PathChars, MaxPathLen)

\* The home directory of PATHS: "/h/h" as the "/home/heart" of the tests,
\* "/h", "/h/", "/", the relative "h" and ".", and the empty path of an
\* empty HOME.
Homes ==
    {<<47, 104, 47, 104>>, <<47, 104>>, <<47, 104, 47>>, <<47>>, <<104>>,
     <<46>>, <<>>}

\* PATHS is made once, with the home directory of the user.
InitTilde ==
    /\ os = "unix"
    /\ IdleCodec /\ IdleCalls /\ IdleWide /\ IdleMru
    /\ \E h \in Homes : tilde = [NoTilde EXCEPT !.home = h]

\* compress_tilde(path)
CallCompressTilde ==
    /\ tilde.op = "none"
    /\ \E path \in PathTexts :
        tilde' = [op |-> "compress_tilde", home |-> tilde.home, path |-> path,
                  result |-> compress_tilde_impl(path, tilde.home)]
    /\ UNCHANGED <<os, pb, s, pb2, pc, log, wide, mru, last, it>>

\* expand_tilde(path)
CallExpandTilde ==
    /\ tilde.op = "none"
    /\ \E path \in PathTexts :
        tilde' = [op |-> "expand_tilde", home |-> tilde.home, path |-> path,
                  result |-> expand_tilde_impl(path, tilde.home)]
    /\ UNCHANGED <<os, pb, s, pb2, pc, log, wide, mru, last, it>>

\* The caller has used the result and is ready for another call.
TildeReturn ==
    /\ tilde.op # "none"
    /\ tilde' = [NoTilde EXCEPT !.home = tilde.home]
    /\ UNCHANGED <<os, pb, s, pb2, pc, log, wide, mru, last, it>>

NextTilde == CallCompressTilde \/ CallExpandTilde \/ TildeReturn

SpecTilde == InitTilde /\ [][NextTilde]_vars

----------------------------------------------------------------------------
(* What the claims speak of, stated apart from the code.                   *)

\* The Unicode control characters (general category Cc).
ControlChars == (0..31) \cup (127..159)

ContainsControl(text) == \E i \in 1..Len(text) : text[i] \in ControlChars

\* The path of the current call is valid text, and that text.
PathIsText == pb.some /\ to_str(pb.units).some
PathText == to_str(pb.units).text

\* A token that path_to_path_string returned for the path pb.
Encoded == pb.some /\ s.some

\* path_string_to_path_buf has run on the token of the path pb.
RoundTripped == pb.some /\ s.some /\ pb2.some

\* The raw bytes of a path: its units, each 16-bit unit high byte first.
RawBytes(units) ==
    IF os = "windows"
    THEN [i \in 1..(2 * Len(units)) |->
             IF i % 2 = 1 THEN units[(i + 1) \div 2] \div 256
             ELSE units[i \div 2] % 256]
    ELSE units

\* RFC 4648, section 4: the alphabet, and the encoding read off the bit
\* stream of the bytes, six bits at a time, high bit first.
StandardAlphabet ==
    <<
      65, 66, 67, 68, 69, 70, 71, 72, 73, 74, 75, 76, 77,
      78, 79, 80, 81, 82, 83, 84, 85, 86, 87, 88, 89, 90,
      97, 98, 99, 100, 101, 102, 103, 104, 105, 106, 107, 108, 109,
      110, 111, 112, 113, 114, 115, 116, 117, 118, 119, 120, 121, 122,
      48, 49, 50, 51, 52, 53, 54, 55, 56, 57, 43, 47>>

Pow2(k) == IF k = 0 THEN 1 ELSE IF k = 1 THEN 2 ELSE IF k = 2 THEN 4
           ELSE IF k = 3 THEN 8 ELSE IF k = 4 THEN 16 ELSE IF k = 5 THEN 32
           ELSE IF k = 6 THEN 64 ELSE 128

BitOf(bytes, k) ==
    IF k < 8 * Len(bytes)
    THEN (bytes[(k \div 8) + 1] \div Pow2(7 - (k % 8))) % 2
    ELSE 0

SextetOf(bytes, j) ==
    (32 * BitOf(bytes, 6 * j)) + (16 * BitOf(bytes, (6 * j) + 1))
    + (8 * BitOf(bytes, (6 * j) + 2)) + (4 * BitOf(bytes, (6 * j) + 3))
    + (2 * BitOf(bytes, (6 * j) + 4)) + BitOf(bytes, (6 * j) + 5)

Rfc4648(bytes) ==
    LET n == Len(bytes)
        sextets == ((8 * n) + 5) \div 6
    IN  [i \in 1..(4 * ((n + 2) \div 3)) |->
            IF i <= sextets THEN StandardAlphabet[SextetOf(bytes, i - 1) + 1]
            ELSE 61]

----------------------------------------------------------------------------
(* The claims.                                                             *)

\* C1: round trip.  For every path p, decoding the token of p gives back
\* exactly p: path_string_to_path_buf(path_to_path_string(p)) = p.
C1_RoundTrip ==
    RoundTripped => pb2.status = "ok" /\ pb2.units = pb.units

\* C2: prefix exclusivity.  A token that path_to_path_string returns in the
\* verbatim (borrowed) form never starts with the sentinel PREFIX.
C2_PrefixExclusivity ==
    Encoded /\ s.cow = "Borrowed" => ~starts_with(s.text, PREFIX)

\* C3: decoding a token that starts with PREFIX and whose remainder is not
\* valid base64 yields the error value DecodeError::MalformedPayload: no
\* panic, no default path, no literal path.
C3_MalformedPayloadIsAnErrorValue ==
    /\ pb2.some
    /\ starts_with(s.text, PREFIX)
    /\ ~base64_decode(Drop(s.text, Len(PREFIX))).ok
    => pb2.status = "MalformedPayload"

\* C4: the decoder never fails on a token the encoder produced, verbatim or
\* escaped: it completes without an error and without a panic.
C4_DecoderNeverFailsOnEncoderOutput ==
    RoundTripped => pb2.status = "ok"

\* C5: encoding is unambiguous.  No path other than the one that was encoded
\* has the same token.
C5_EncodingIsUnambiguous ==
    Encoded =>
        \A q \in PathInputs :
            q # pb.units => path_to_path_string(q).text # s.text

\* C6: idempotence of safety.  A path whose units are valid text with no
\* control character is returned as that text, unchanged and borrowed.
C6_SafeTextIsVerbatim ==
    Encoded /\ PathIsText /\ ~ContainsControl(PathText) =>
        /\ s.cow = "Borrowed"
        /\ s.text = PathText
        /\ PathBufFrom(s.text) = pb.units

\* A path of valid text with a character beyond ASCII and no control
\* character has been encoded.
C6_Witness ==
    /\ Encoded /\ PathIsText /\ ~ContainsControl(PathText)
    /\ \E i \in 1..Len(PathText) : PathText[i] > 127
    /\ s.cow = "Borrowed"

\* C7: no false negatives.  A path whose text has a control character, at
\* any position and anywhere in the Unicode control class, gets a token that
\* starts with PREFIX.
C7_ControlCharIsEscaped ==
    Encoded /\ PathIsText /\ ContainsControl(PathText) =>
        starts_with(s.text, PREFIX)

\* A text whose only control character is U+0085, not in first place, has
\* been encoded.
C7_Witness ==
    /\ Encoded /\ PathIsText
    /\ Len(PathText) >= 2
    /\ PathText[Len(PathText)] = 133
    /\ \A i \in 1..(Len(PathText) - 1) : PathText[i] \notin ControlChars
    /\ s.cow = "Owned"

\* C8: a path that is not valid text is encoded in the escaped form, PREFIX
\* and then the base64 of its raw bytes, and decoding that token gives back
\* the exact units of the path.
C8_InvalidTextIsEscapedLosslessly ==
    pb.some /\ ~to_str(pb.units).some =>
        /\ s.some =>
            /\ s.cow = "Owned"
            /\ s.text = PREFIX \o Rfc4648(RawBytes(pb.units))
        /\ pb2.some => pb2.status = "ok" /\ pb2.units = pb.units

\* A path of several units that is not valid text has gone through encoding
\* and decoding.
C8_Witness ==
    /\ RoundTripped
    /\ ~to_str(pb.units).some
    /\ Len(pb.units) >= 2
    /\ s.cow = "Owned"
    /\ pb2.status = "ok"

\* C9: the token of a path holds no line terminator and no other control
\* character, in the verbatim and in the escaped form.
C9_TokenHasNoControlChar ==
    Encoded => ~ContainsControl(s.text)

\* A path with a tab after a printable character has been encoded.
C9_Witness ==
    /\ Encoded /\ PathIsText
    /\ Len(PathText) >= 2
    /\ PathText[1] \notin ControlChars
    /\ PathText[2] = 9

\* C10: an escaped token is PREFIX, then the standard-alphabet padded base64
\* of the raw bytes of the path in order, and nothing else; the 8-bit path
\* "hello\tworld" gives PREFIX and "aGVsbG8Jd29ybGQ=".
C10_EscapedTokenIsPrefixThenBase64 ==
    Encoded /\ s.cow = "Owned" =>
        LET raw == RawBytes(pb.units)
            payload == Drop(s.text, Len(PREFIX))
        IN  /\ starts_with(s.text, PREFIX)
            /\ Len(payload) = 4 * ((Len(raw) + 2) \div 3)
            /\ payload = Rfc4648(raw)
            /\ (/\ os = "unix"
                /\ pb.units = <<104, 101, 108, 108, 111, 9,
                                119, 111, 114, 108, 100>>)
               => payload = <<97, 71, 86, 115, 98, 71, 56, 74,
                              100, 50, 57, 121, 98, 71, 81, 61>>

\* The 8-bit path "hello\tworld" has been encoded.
C10_Witness ==
    /\ Encoded
    /\ os = "unix"
    /\ pb.units = <<104, 101, 108, 108, 111, 9, 119, 111, 114, 108, 100>>
    /\ s.cow = "Owned"

C12_EmptyPath ==
    /\ Encoded /\ pb.units = <<>> => s.cow = "Borrowed" /\ s.text = <<>>
    /\ pb2.some /\ s.text = <<>> => pb2.status = "ok" /\ pb2.units = <<>>

\* The empty path has been encoded and its token decoded.
C12_Witness ==
    /\ RoundTripped
    /\ pb.units = <<>>
    /\ s.text = <<>>
    /\ pc = "done"

\* The text carries the sentinel prefix, character by character.
CarriesPrefix(text) ==
    /\ Len(text) >= Len(PREFIX)
    /\ \A i \in 1..Len(PREFIX) : text[i] = PREFIX[i]

\* C13: decoding a token that does not start with PREFIX succeeds and gives
\* the path whose text is that token; nothing of it is base64-decoded.
C13_UnprefixedTokenIsLiteral ==
    pb2.some /\ ~CarriesPrefix(s.text) =>
        /\ pb2.status = "ok"
        /\ to_str(pb2.units) = [some |-> TRUE, text |-> s.text]

\* A line that is the prefix less its last character, followed by text, has
\* been decoded.
C13_Witness ==
    /\ pb2.some
    /\ s.cow = "Read"
    /\ Len(s.text) > Len(PREFIX)
    /\ \A i \in 1..(Len(PREFIX) - 1) : s.text[i] = PREFIX[i]
    /\ ~CarriesPrefix(s.text)

\* The text after the prefix of the current token.
Payload == Drop(s.text, Len(PREFIX))

\* The text is the padded standard base64 of some bytes: it is accepted,
\* and it is the RFC 4648 rendering of the bytes it stands for.
IsPaddedBase64(text) ==
    /\ Len(text) % 4 = 0
    /\ base64_decode(text).ok
    /\ Rfc4648(base64_decode(text).bytes) = text

\* C14: decoding fails only when the token carries PREFIX and the remainder
\* is not valid base64.  A token PREFIX + valid padded base64, the token
\* that is exactly PREFIX included, on both builds and for a payload of any
\* number of bytes, decodes without an error and without a panic.
C14_DecodeFailsOnlyOnMalformedPayload ==
    pb2.some /\ pb2.status # "ok" =>
        CarriesPrefix(s.text) /\ ~IsPaddedBase64(Payload)

\* C15: on the 16-bit build, u16_slice_to_byte_array renders each unit as
\* two bytes, high byte first; decode_os of those bytes returns the unit
\* sequence it came from, for every sequence, the empty one included; and
\* bytes_to_u16(u16_to_bytes(v)) = v without overflow.
C15_WideRoundTrip ==
    LET w == wide.wide_chars
    IN  /\ wide.pc \in {"bytes", "decoded"} => wide.bytes = RawBytes(w)
        /\ wide.pc = "decoded" =>
               ~wide.os_str.panicked /\ wide.os_str.units = w
        /\ \A i \in 1..Len(w) :
               LET b == u16_to_bytes(w[i])
               IN  /\ (b[1] * 256) + b[2] <= 65535
                   /\ bytes_to_u16(b[1], b[2]) = w[i]

\* The token is one that the encoder made and whose base64 was then changed.
Edited == pb.some /\ s.some /\ s.cow = "Edited"

\* The text cannot be base64: a character that is neither of the alphabet
\* nor the padding, or a length that no number of bytes gives.
IsBroken(text) ==
    \/ Len(text) % 4 = 1
    \/ \E i \in 1..Len(text) :
           /\ text[i] # PadChar
           /\ \A j \in 1..Len(StandardAlphabet) : StandardAlphabet[j] # text[i]

C16_WitnessBroken == Edited /\ pb2.some /\ IsBroken(Payload)

\* The value is an item of the sequence.
Contains(seq, v) == \E i \in 1..Len(seq) : seq[i] = v

\* The items of the sequence that are not the value, in their order.
Without(seq, v) == SelectSeq(seq, LAMBDA x : x # v)

\* x stands before y in the sequence.
Before(seq, x, y) ==
    \E i \in 1..Len(seq) : \E j \in (i + 1)..Len(seq) : seq[i] = x /\ seq[j] = y

\* C17: an MRUList never holds two equal items; the insert of a value that
\* the list holds puts it at the front and leaves the length as it was.
C17_NoDuplicates ==
    /\ \A i \in 1..Len(mru.data) : \A j \in 1..Len(mru.data) :
           i # j => mru.data[i] # mru.data[j]
    /\ last.op = "insert" /\ Contains(last.before.data, last.value) =>
           /\ mru.data[1] = last.value
           /\ Len(mru.data) = Len(last.before.data)

\* A value that was the last item of a full list of two or more has been
\* inserted again.
C17_Witness ==
    /\ last.op = "insert"
    /\ Len(last.before.data) = mru.max_items
    /\ mru.max_items >= 2
    /\ last.before.data[Len(last.before.data)] = last.value

\* The insert made last was of a value that the list did not hold, into a
\* list that had no room for one more.
InsertOverflowed ==
    /\ last.op = "insert"
    /\ ~Contains(last.before.data, last.value)
    /\ Len(last.before.data) + 1 > mru.max_items

\* The list before the call, less its last item.
AllButLast == SubSeq(last.before.data, 1, Len(last.before.data) - 1)

C19_InsertedIsFirst ==
    last.op = "insert" /\ mru.max_items >= 1 =>
        /\ Len(mru.data) >= 1
        /\ mru.data[1] = last.value
        /\ \A i \in 2..Len(mru.data) :
               /\ mru.data[i] # last.value
               /\ Contains(last.before.data, mru.data[i])
        /\ \A i \in 2..Len(mru.data) : \A j \in (i + 1)..Len(mru.data) :
               Before(last.before.data, mru.data[i], mru.data[j])

\* The value that was inserted stood behind two other items, which are
\* still in the list.
C19_Witness ==
    /\ last.op = "insert"
    /\ Len(mru.data) >= 3
    /\ position(last.before.data, last.value) >= 3

\* C20: remove(v) of a value that the list does not hold changes nothing:
\* the items, the length and the is_changed flag are as they were.
C20_RemoveOfAbsentIsNoop ==
    last.op = "remove" /\ ~Contains(last.before.data, last.value) =>
        /\ mru.data = last.before.data
        /\ len(mru) = len(last.before)
        /\ mru.is_changed = last.before.is_changed

\* A value that a list with items and a cleared flag does not hold has been
\* removed from it.
C20_Witness ==
    /\ last.op = "remove"
    /\ ~Contains(last.before.data, last.value)
    /\ Len(last.before.data) >= 1
    /\ ~last.before.is_changed

\* The sequence less its item at index p.
DeleteAt(seq, p) == SubSeq(seq, 1, p - 1) \o SubSeq(seq, p + 1, Len(seq))

\* C21: remove(v) of a value that the list holds, at whatever index, deletes
\* that one item: the length is one less, the other items are in the order
\* they had, and is_changed is true.
C21_RemoveOfPresentDeletesIt ==
    last.op = "remove" /\ Contains(last.before.data, last.value) =>
        /\ \E p \in 1..Len(last.before.data) :
               /\ last.before.data[p] = last.value
               /\ mru.data = DeleteAt(last.before.data, p)
        /\ ~Contains(mru.data, last.value)
        /\ len(mru) = len(last.before) - 1
        /\ mru.is_changed

\* The first item of a list of three, whose flag was cleared, has been
\* removed.
C21_Witness ==
    /\ last.op = "remove"
    /\ Len(last.before.data) = 3
    /\ last.before.data[1] = last.value
    /\ ~last.before.is_changed

\* The last and the middle item of a list of three have been removed.
C21_WitnessLast ==
    /\ last.op = "remove"
    /\ Len(last.before.data) = 3
    /\ last.before.data[3] = last.value

C21_WitnessMiddle ==
    /\ last.op = "remove"
    /\ Len(last.before.data) = 3
    /\ last.before.data[2] = last.value

\* C22: a new list has is_changed() false, and from new() or
\* clear_is_changed_flag() on, is_changed() is true exactly when one of the
\* insert and remove calls made since altered the item sequence.  Call by
\* call: the flag after an insert or a remove is the flag before it, or
\* true if that call altered the item sequence; a call that leaves the
\* sequence as it was leaves the flag as it was.
C22_ChangedIffAltered ==
    /\ last.op \in {"none", "clear_is_changed_flag"} => ~mru.is_changed
    /\ last.op \in {"insert", "remove"} =>
           mru.is_changed =
               (last.before.is_changed \/ mru.data # last.before.data)

\* C23: iter() yields exactly len() items, those of the list in index
\* order, the item inserted last first, and None on every call of next()
\* after them.
C23_IterYieldsItemsThenNone ==
    it.some =>
        /\ \A k \in 1..Len(it.out) :
               IF k <= len(mru)
               THEN it.out[k].some /\ it.out[k].value = mru.data[k]
               ELSE ~it.out[k].some
        /\ Len(it.out) >= 1 /\ last.op = "insert" /\ mru.max_items >= 1 =>
               it.out[1].some /\ it.out[1].value = last.value

\* An iterator over a list of three, made right after an insert, has been
\* asked for two items more than the list has.
C23_Witness ==
    /\ it.some
    /\ len(mru) = 3
    /\ last.op = "insert"
    /\ Len(it.out) = len(mru) + 2

\* The components of the path of the call made last, and of the home
\* directory.
PathComponents == components(tilde.path)
HomeComponents == components(tilde.home)

\* The leading components of the path are all the components of home.
LeadsWithHome ==
    /\ Len(HomeComponents) <= Len(PathComponents)
    /\ SubSeq(PathComponents, 1, Len(HomeComponents)) = HomeComponents

\* The text of components written one after the other, a '/' between two.
RECURSIVE Joined(_)
Joined(comps) ==
    IF comps = <<>> THEN <<>>
    ELSE IF Len(comps) = 1 THEN comps[1]
    ELSE comps[1] \o <<47>> \o Joined(Tail(comps))

\* C24 as stated: compress_tilde_impl(path, home) is "~" followed by the
\* components of path that come after those of home, in their order, if the
\* leading components of path are the components of home, compared
\* component by component; if not it is path, unchanged.
C24_CompressTilde ==
    tilde.op = "compress_tilde" =>
        IF LeadsWithHome
        THEN LET rest == Drop(PathComponents, Len(HomeComponents))
             IN  /\ tilde.result = Joined(<<(<<126>>)>> \o rest)
                 /\ components(tilde.result) = <<(<<126>>)>> \o rest
        ELSE tilde.result = tilde.path

\* C24 amended: the same for a home of one component or more.  A home
\* without components (the empty path) is matched by every path, and the
\* result is "~" followed by the components of the path unless the first
\* of them is the root, which takes the place of the "~", or ".", which is
\* no component of the result.
C24_CompressTildeOfHome ==
    tilde.op = "compress_tilde" =>
        IF ~LeadsWithHome THEN tilde.result = tilde.path
        ELSE IF HomeComponents # <<>>
        THEN LET rest == Drop(PathComponents, Len(HomeComponents))
             IN  /\ tilde.result = Joined(<<(<<126>>)>> \o rest)
                 /\ components(tilde.result) = <<(<<126>>)>> \o rest
        ELSE IF PathComponents # <<>> /\ PathComponents[1] = <<47>>
        THEN components(tilde.result) = PathComponents
        ELSE IF PathComponents # <<>> /\ PathComponents[1] = <<46>>
        THEN components(tilde.result) = <<(<<126>>)>> \o Tail(PathComponents)
        ELSE components(tilde.result) = <<(<<126>>)>> \o PathComponents

\* A path with components behind those of home has been compressed.
C24_Witness ==
    /\ tilde.op = "compress_tilde"
    /\ LeadsWithHome
    /\ Len(PathComponents) > Len(HomeComponents)
    /\ Len(HomeComponents) >= 2

\* A path whose text begins with the text of home, but whose components do
\* not, has been given to compress_tilde ("/hh" and the home "/h").
C24_WitnessNamePrefix ==
    /\ tilde.op = "compress_tilde"
    /\ starts_with(tilde.path, tilde.home)
    /\ ~LeadsWithHome

\* The first component of the path is "~".
FirstIsTilde == PathComponents # <<>> /\ PathComponents[1] = <<126>>

\* C25: expand_tilde_impl(path, home) expands only a path whose first
\* component is "~", to home followed by the components after the first, in
\* their order; a path with a tilde elsewhere, a path whose first component
\* is longer than "~", and every other path is returned unchanged.
C25_ExpandTilde ==
    tilde.op = "expand_tilde" =>
        IF FirstIsTilde
        THEN /\ starts_with(tilde.result, tilde.home)
             /\ components(tilde.result) =
                    HomeComponents \o Tail(PathComponents)
        ELSE tilde.result = tilde.path

\* A path of "~" and components behind it has been expanded.
C25_Witness ==
    /\ tilde.op = "expand_tilde"
    /\ FirstIsTilde
    /\ Len(PathComponents) >= 2

\* A path with a tilde that is not its first component, and a path whose
\* first component begins with a tilde and is longer, have been given to
\* expand_tilde.
C25_WitnessTildeElsewhere ==
    /\ tilde.op = "expand_tilde"
    /\ ~FirstIsTilde
    /\ \E i \in 2..Len(PathComponents) : PathComponents[i] = <<126>>

C25_WitnessTildeName ==
    /\ tilde.op = "expand_tilde"
    /\ PathComponents # <<>>
    /\ Len(PathComponents[1]) >= 2
    /\ PathComponents[1][1] = 126

====
